---- MODULE Spec2Model ----
(***************************************************************************)
(* Toroidal Game-of-Life simulator (src/src/main.rs): seeding, the         *)
(* transition engine calculate_state, the renderer and the event-loop      *)
(* callback of main.                                                       *)
(*                                                                         *)
(* A cell is the pair (u8, u8) of the source: <<alive, brightness>>.       *)
(* A CellArray is a function  row y -> column x -> cell, 0-based.          *)
(***************************************************************************)
EXTENDS Integers, Naturals, Sequences, FiniteSets, TLC

\* ---------------------------------------------------------------- bounds
\* Grid dimensions (640 x 480 in the source, scaled down here).
WIDTH == 3
HEIGHT == 3
\* Cap on the generation counter (unbounded in the source).
MaxGen == 4
\* Largest surplus, in bytes, of a frame buffer handed to render.
MaxExtra == 8

\* ------------------------------------------------------------- constants
NEIGHBOR_LIMIT == 3

\* rand::random::<f32>() yields multiples of 2^-24 in [0,1); values are
\* represented by their numerators.  0.5 is SeedThreshold / 2^24.
RandDenominator == 2 ^ 24
SeedThreshold == RandDenominator \div 2
RandVals == {0, SeedThreshold, SeedThreshold + 1, RandDenominator - 1}
NoRand == -1

\* The f32 literal 0.95 is 15938355 * 2^-24; the significand is kept in two
\* 12-bit halves so that every product stays within 32 bits.
DecayMantissaHi == 3891
DecayMantissaLo == 819

Rows == 0 .. HEIGHT - 1
Cols == 0 .. WIDTH - 1
FrameLen == WIDTH * HEIGHT * 4

VARIABLES
    cells,             \* main: the grid
    generation,        \* main: generation counter
    pc,                \* position of the program
    control_flow,      \* event loop: "Poll" or "Exit"
    frame_buffer,      \* pixels.get_frame(): function 0..len-1 -> byte
    render_outcome,    \* how the last render call ended
    sy, sx, r,         \* seed: loop position and the last random draw
    cells_original,    \* calculate_state: snapshot of the input grid
    has_changes,       \* calculate_state: flag
    alive_neighbors,   \* calculate_state: count computed for every cell
    x_wrapped_left, x_wrapped_right,   \* calculate_state: per column x
    y_wrapped_top, y_wrapped_bottom,   \* calculate_state: per row y
    stdout             \* generation numbers printed by "Stable at ..."

vars == <<cells, generation, pc, control_flow, frame_buffer, render_outcome,
          sy, sx, r, cells_original, has_changes, alive_neighbors,
          x_wrapped_left, x_wrapped_right, y_wrapped_top, y_wrapped_bottom,
          stdout>>

calcVars == <<cells_original, has_changes, alive_neighbors,
              x_wrapped_left, x_wrapped_right, y_wrapped_top,
              y_wrapped_bottom, stdout>>
seedVars == <<sy, sx, r>>

\* The array initialised to dead cells of full brightness.
EmptyCells_full_brightness == [y \in Rows |-> [x \in Cols |-> <<0, 255>>]]

\* [[(0, 0); WIDTH]; HEIGHT]
EmptyCells == [y \in Rows |-> [x \in Cols |-> <<0, 0>>]]
NoIndex == [i \in {} |-> 0]

\* ------------------------------------------------------------------ seed
\* seed_cell with the comparison against 0.5 taken the other way.
seed_cell_inverted(rv) ==
    IF rv > SeedThreshold THEN <<0, 0>> ELSE <<1, 255>>

\* One iteration of the loop body of seed, for the draw rv.
seed_cell(rv) ==
    IF rv > SeedThreshold THEN <<1, 255>> ELSE <<0, 0>>

\* -------------------------------------------------------- calculate_state
\* wrap that clamps at 0 instead of wrapping to limit - 1.
wrap_underflow_clamped(index, amount, limit) ==
    IF index + amount < 0 THEN 0
    ELSE IF index + amount >= limit THEN 0 + amount
    ELSE index + amount

\* The closure wrap, in i16 arithmetic (no value leaves the i16 range).
wrap(index, amount, limit) ==
    IF index + amount < 0 THEN limit + amount
    ELSE IF index + amount >= limit THEN 0 + amount
    ELSE index + amount

RECURSIVE BitLen(_)
BitLen(n) == IF n = 0 THEN 0 ELSE 1 + BitLen(n \div 2)

\* The decay with the factor 0.5 in place of 0.95.
decay_by_half(b) == b \div 2

\* (b as f32 * 0.95) as u8 : the exact product b * 15938355 * 2^-24 is
\* rounded to a 24-bit significand (nearest, ties to even) and the result
\* is truncated toward zero, saturating at 255.
decay(b) ==
    LET lo_full == b * DecayMantissaLo
        lo      == lo_full % 4096
        hi      == b * DecayMantissaHi + (lo_full \div 4096)
        d       == IF BitLen(hi) > 12 THEN BitLen(hi) - 12 ELSE 0
        q       == lo \div (2 ^ d)
        rem     == lo % (2 ^ d)
        half    == IF d = 0 THEN 0 ELSE 2 ^ (d - 1)
        up      == d > 0 /\ (rem > half \/ (rem = half /\ q % 2 = 1))
        rounded == (IF up THEN q + 1 ELSE q) * (2 ^ d)
        int     == (hi + (rounded \div 4096)) \div 4096
    IN  IF int > 255 THEN 255 ELSE int

\* The decay rounding up instead of truncating.
decay_u8_rounding_up == [b \in 0 .. 255 |-> (b * 95 + 99) \div 100]

\* The decay of every u8 value, computed once.
decay_u8 == [b \in 0 .. 255 |-> decay(b)]

\* count_neighbors without the four diagonal lookups.
count_neighbors_without_diagonals(orig, y, x, width, height) ==
    LET x_left   == wrap(x, -1, width)
        x_right  == wrap(x, 1, width)
        y_top    == wrap(y, -1, height)
        y_bottom == wrap(y, 1, height)
    IN  orig[y_top][x][1] + orig[y][x_left][1] + orig[y][x_right][1]
      + orig[y_bottom][x][1]

\* Sum of the eight lookups in cells_original for cell (y, x).
count_neighbors(orig, y, x, width, height) ==
    LET x_left   == wrap(x, -1, width)
        x_right  == wrap(x, 1, width)
        y_top    == wrap(y, -1, height)
        y_bottom == wrap(y, 1, height)
    IN  orig[y_top][x_left][1] + orig[y_top][x][1] + orig[y_top][x_right][1]
      + orig[y][x_left][1] + orig[y][x_right][1]
      + orig[y_bottom][x_left][1] + orig[y_bottom][x][1]
      + orig[y_bottom][x_right][1]

\* underpopulation with the threshold one too high.
underpopulation_one_too_high(n) == n < NEIGHBOR_LIMIT

\* The conditions of the branches, as written in the source.
underpopulation(n) == n < NEIGHBOR_LIMIT - 1
balanced(n) == n < NEIGHBOR_LIMIT + 1
overpopulation(n) == n > NEIGHBOR_LIMIT
reproduction(n) == n = NEIGHBOR_LIMIT

\* rule with a reproduction branch that leaves the brightness alone.
rule_reproduction_keeps_brightness(cur, old, n) ==
    IF cur[1] = 1 THEN
        IF underpopulation(n) THEN <<(<<0, decay_u8[old[2]]>>), TRUE>>
        ELSE IF balanced(n) THEN <<(<<cur[1], 255>>), FALSE>>
        ELSE IF overpopulation(n) THEN <<(<<0, decay_u8[old[2]]>>), TRUE>>
        ELSE <<cur, FALSE>>
    ELSE IF reproduction(n) THEN <<(<<1, old[2]>>), TRUE>>
    ELSE <<(<<old[1], decay_u8[old[2]]>>), FALSE>>

\* The if/else chain of the loop body: cur is cells[y][x] as read at the
\* start of the iteration, old is cells_original[y][x], n is alive_neighbors.
\* Result: <<new cell, has_changes set by this iteration>>.
rule(cur, old, n) ==
    IF cur[1] = 1 THEN
        IF underpopulation(n) THEN <<(<<0, decay_u8[old[2]]>>), TRUE>>
        ELSE IF balanced(n) THEN <<(<<cur[1], 255>>), FALSE>>
        ELSE IF overpopulation(n) THEN <<(<<0, decay_u8[old[2]]>>), TRUE>>
        ELSE <<cur, FALSE>>
    ELSE IF reproduction(n) THEN <<(<<1, 255>>), TRUE>>
    ELSE <<(<<old[1], decay_u8[old[2]]>>), FALSE>>

\* The neighbour lookups done on the array being written.
neighbor_source_in_place(st, orig) == st.cells

\* The array the eight neighbour lookups index: cells_original.
neighbor_source(st, orig) == orig

\* loop_body assigning has_changes in every iteration (true or false)
\* instead of only ever setting it.
loop_body_overwrites_has_changes(st, orig, y, x, width, height) ==
    LET n   == count_neighbors(neighbor_source(st, orig), y, x, width, height)
        res == rule(st.cells[y][x], orig[y][x], n)
    IN  [cells           |-> [st.cells EXCEPT ![y][x] = res[1]],
         has_changes     |-> res[2],
         alive_neighbors |-> [st.alive_neighbors EXCEPT ![y][x] = n]]

\* One iteration of the loop body for cell (y, x); st is the loop state
\* (cells as written so far, has_changes, the counts computed so far).
loop_body(st, orig, y, x, width, height) ==
    LET n   == count_neighbors(neighbor_source(st, orig), y, x, width, height)
        res == rule(st.cells[y][x], orig[y][x], n)
    IN  [cells           |-> [st.cells EXCEPT ![y][x] = res[1]],
         has_changes     |-> st.has_changes \/ res[2],
         alive_neighbors |-> [st.alive_neighbors EXCEPT ![y][x] = n]]

\* The cells visited by  for y in 0..height { for x in 0..width { .. } }.
row_major(width, height) ==
    [k \in 1 .. width * height |-> <<(k - 1) \div width, (k - 1) % width>>]

RECURSIVE run_loop(_, _, _, _, _, _)
run_loop(st, orig, order, k, width, height) ==
    IF k > Len(order) THEN st
    ELSE CHOOSE out \in
            { run_loop(next, orig, order, k + 1, width, height) :
                next \in { loop_body(st, orig, order[k][1], order[k][2],
                                     width, height) } } : TRUE

\* calculate_state visiting the cells in the given order.
calculate_over(grid, order, width, height) ==
    run_loop([cells           |-> grid,
              has_changes     |-> FALSE,
              alive_neighbors |-> [y \in Rows |-> [x \in Cols |-> 0]]],
             grid, order, 1, width, height)

calculate_state(grid, width, height) ==
    calculate_over(grid, row_major(width, height), width, height)

\* The number printed by "Stable at current generation {}", one too high.
stable_message_next_generation(gen) == gen + 1

\* The number printed by "Stable at current generation {}".
stable_message(gen) == gen

\* ---------------------------------------------------------------- render
\* render addressing the grid column by column (x and y exchanged).
render_transposed(grid, width, height, fb) ==
    LET len     == Cardinality(DOMAIN fb)
        chunks  == len \div 4
        inside  == height * width
        written == IF chunks > inside THEN inside ELSE chunks
    IN  [frame   |-> [j \in DOMAIN fb |->
                        IF j \div 4 < written
                        THEN grid[(j \div 4) % height][(j \div 4) \div height][2]
                        ELSE fb[j]],
         outcome |-> IF chunks > inside THEN "panic" ELSE "ok"]

\* render over a frame buffer fb (function 0..len-1 -> byte).  The buffer is
\* cut into len \div 4 chunks of 4 bytes; chunk i addresses cells[y][x] with
\* x = i % width, y = i / width, and indexing past the HEIGHT rows of the
\* array panics, leaving the chunks before it written.
render(grid, width, height, fb) ==
    LET len     == Cardinality(DOMAIN fb)
        chunks  == len \div 4
        inside  == height * width
        written == IF chunks > inside THEN inside ELSE chunks
    IN  [frame   |-> [j \in DOMAIN fb |->
                        IF j \div 4 < written
                        THEN grid[(j \div 4) \div width][(j \div 4) % width][2]
                        ELSE fb[j]],
         outcome |-> IF chunks > inside THEN "panic" ELSE "ok"]

\* ------------------------------------------------------------------ Init
\* main up to the call of seed: zeroed grid, generation 0, zeroed frame.
Init ==
    /\ cells = EmptyCells
    /\ generation = 0
    /\ pc = "seed"
    /\ control_flow = "Poll"
    /\ frame_buffer = [j \in 0 .. FrameLen - 1 |-> 0]
    /\ render_outcome = "none"
    /\ sy = 0 /\ sx = 0 /\ r = NoRand
    /\ cells_original = EmptyCells
    /\ has_changes = FALSE
    /\ alive_neighbors = [y \in Rows |-> [x \in Cols |-> 0]]
    /\ x_wrapped_left = NoIndex /\ x_wrapped_right = NoIndex
    /\ y_wrapped_top = NoIndex /\ y_wrapped_bottom = NoIndex
    /\ stdout = << >>

\* --------------------------------------------------------------- actions
\* seed: one iteration of the nested loops.
SeedCell ==
    /\ pc = "seed" /\ sy < HEIGHT
    /\ \E rv \in RandVals :
          /\ r' = rv
          /\ cells' = [cells EXCEPT ![sy][sx] = seed_cell(rv)]
    /\ IF sx + 1 < WIDTH
       THEN sx' = sx + 1 /\ sy' = sy
       ELSE sx' = 0 /\ sy' = sy + 1
    /\ UNCHANGED <<generation, pc, control_flow, frame_buffer,
                   render_outcome, calcVars>>

\* seed: the loops are over, the grid is returned to main.
SeedReturn ==
    /\ pc = "seed" /\ sy = HEIGHT
    /\ pc' = "render"
    /\ sy' = 0 /\ sx' = 0 /\ r' = NoRand
    /\ UNCHANGED <<cells, generation, control_flow, frame_buffer,
                   render_outcome, calcVars>>

\* Render with the commented-out throttle active (every second generation
\* here): the other callbacks skip render and present.
Render_throttled ==
    /\ pc = "render"
    /\ IF generation % 2 = 0
       THEN \E res \in {render(cells, WIDTH, HEIGHT, frame_buffer)} :
               /\ frame_buffer' = res.frame
               /\ render_outcome' = res.outcome
               /\ pc' = IF res.outcome = "ok" THEN "present" ELSE "panicked"
       ELSE /\ pc' = "input"
            /\ UNCHANGED <<frame_buffer, render_outcome>>
    /\ UNCHANGED <<cells, generation, control_flow, seedVars, calcVars>>

\* callback: render(&cells, WIDTH, HEIGHT, generation, pixels.get_frame()).
Render ==
    /\ pc = "render"
    /\ \E res \in {render(cells, WIDTH, HEIGHT, frame_buffer)} :
           /\ frame_buffer' = res.frame
           /\ render_outcome' = res.outcome
           /\ pc' = IF res.outcome = "ok" THEN "present" ELSE "panicked"
    /\ UNCHANGED <<cells, generation, control_flow, seedVars, calcVars>>

\* callback: pixels.render() succeeded.
PresentOk ==
    /\ pc = "present"
    /\ pc' = "input"
    /\ UNCHANGED <<cells, generation, control_flow, frame_buffer,
                   render_outcome, seedVars, calcVars>>

\* callback: pixels.render() failed: Exit and return.
PresentErr ==
    /\ pc = "present"
    /\ control_flow' = "Exit"
    /\ pc' = "exited"
    /\ UNCHANGED <<cells, generation, frame_buffer, render_outcome,
                   seedVars, calcVars>>

\* InputExit without the return: Exit is set and the callback goes on.
InputExit_without_return ==
    /\ pc = "input"
    /\ \E escape \in BOOLEAN, quit \in BOOLEAN :
          /\ escape \/ quit
          /\ control_flow' = "Exit"
          /\ pc' = "tick"
    /\ UNCHANGED <<cells, generation, frame_buffer, render_outcome,
                   seedVars, calcVars>>

\* callback: input.update(&event) is true and escape or quit is reported.
InputExit ==
    /\ pc = "input"
    /\ \E escape \in BOOLEAN, quit \in BOOLEAN :
          /\ escape \/ quit
          /\ control_flow' = "Exit"
          /\ pc' = "exited"
    /\ UNCHANGED <<cells, generation, frame_buffer, render_outcome,
                   seedVars, calcVars>>

\* callback: input.update(&event) is false, or true without escape and
\* quit (a resize only touches the presentation surface).
InputContinue ==
    /\ pc = "input"
    /\ \E updated \in BOOLEAN, resized \in BOOLEAN :
          pc' = "tick"
    /\ UNCHANGED <<cells, generation, control_flow, frame_buffer,
                   render_outcome, seedVars, calcVars>>

\* The counter advanced by two per transition.
next_generation_by_two(gen) == gen + 2

\* generation = generation + 1.
next_generation(gen) == gen + 1

\* Tick with the exit(0) after the stability message active.
Tick_exits_when_stable ==
    /\ pc = "tick"
    /\ generation < MaxGen
    /\ \E st \in {calculate_state(cells, WIDTH, HEIGHT)} :
           /\ cells_original' = cells
           /\ cells' = st.cells
           /\ has_changes' = st.has_changes
           /\ alive_neighbors' = st.alive_neighbors
           /\ stdout' = IF ~st.has_changes
                        THEN Append(stdout, stable_message(generation))
                        ELSE stdout
           /\ pc' = IF ~st.has_changes THEN "exited" ELSE "render"
    /\ x_wrapped_left' = [x \in Cols |-> wrap(x, -1, WIDTH)]
    /\ x_wrapped_right' = [x \in Cols |-> wrap(x, 1, WIDTH)]
    /\ y_wrapped_top' = [y \in Rows |-> wrap(y, -1, HEIGHT)]
    /\ y_wrapped_bottom' = [y \in Rows |-> wrap(y, 1, HEIGHT)]
    /\ generation' = next_generation(generation)
    /\ UNCHANGED <<control_flow, frame_buffer, render_outcome, seedVars>>

\* callback: cells = tick(cells, WIDTH, HEIGHT, generation);
\*           generation = generation + 1.
Tick ==
    /\ pc = "tick"
    /\ generation < MaxGen
    /\ \E st \in {calculate_state(cells, WIDTH, HEIGHT)} :
           /\ cells_original' = cells
           /\ cells' = st.cells
           /\ has_changes' = st.has_changes
           /\ alive_neighbors' = st.alive_neighbors
           /\ stdout' = IF ~st.has_changes
                        THEN Append(stdout, stable_message(generation))
                        ELSE stdout
    /\ x_wrapped_left' = [x \in Cols |-> wrap(x, -1, WIDTH)]
    /\ x_wrapped_right' = [x \in Cols |-> wrap(x, 1, WIDTH)]
    /\ y_wrapped_top' = [y \in Rows |-> wrap(y, -1, HEIGHT)]
    /\ y_wrapped_bottom' = [y \in Rows |-> wrap(y, 1, HEIGHT)]
    /\ generation' = next_generation(generation)
    /\ pc' = "render"
    /\ UNCHANGED <<control_flow, frame_buffer, render_outcome, seedVars>>

Next ==
    \/ SeedCell
    \/ SeedReturn
    \/ Render
    \/ PresentOk
    \/ PresentErr
    \/ InputExit
    \/ InputContinue
    \/ Tick

Spec == Init /\ [][Next]_vars

\* ---------------------------------------- calculate_state on given grids
\* Alive patterns of the input grids: none, the centre cell, a pair, a row
\* of three, a 2 x 2 block, every cell.
StepPatterns ==
    { {},
      {<<1, 1>>},
      {<<2, 1>>, <<2, 2>>},
      {<<1, 0>>, <<1, 1>>, <<1, 2>>},
      {<<0, 0>>, <<0, 1>>, <<1, 0>>, <<1, 1>>},
      Rows \X Cols }

\* The brightness values a dead cell takes: 0 after seed, and the values
\* the decay produces from 255.
RECURSIVE DecayChain(_)
DecayChain(b) == IF b = 0 THEN {0} ELSE {b} \cup DecayChain((b * 95) \div 100)
DeadBrightness == DecayChain(242)

PatternGrid(alive, b) ==
    [y \in Rows |-> [x \in Cols |->
        IF <<y, x>> \in alive THEN <<1, 255>> ELSE <<0, b>>]]

\* The callback about to call tick: on any grid seed can return, or on a
\* grid with one of the alive patterns above whose dead cells all have the
\* same brightness.
StepInit ==
    /\ \/ \E alive \in SUBSET (Rows \X Cols) :
             cells = PatternGrid(alive, 0)
       \/ \E alive \in StepPatterns, b \in DeadBrightness :
             cells = PatternGrid(alive, b)
    /\ generation = 0
    /\ pc = "tick"
    /\ control_flow = "Poll"
    /\ frame_buffer = [j \in 0 .. FrameLen - 1 |-> 0]
    /\ render_outcome = "none"
    /\ sy = 0 /\ sx = 0 /\ r = NoRand
    /\ cells_original = EmptyCells
    /\ has_changes = FALSE
    /\ alive_neighbors = [y \in Rows |-> [x \in Cols |-> 0]]
    /\ x_wrapped_left = NoIndex /\ x_wrapped_right = NoIndex
    /\ y_wrapped_top = NoIndex /\ y_wrapped_bottom = NoIndex
    /\ stdout = << >>

StepNext == Tick

SpecStep == StepInit /\ [][StepNext]_vars

\* ------------------------------------------- render on given frame buffers
\* render called on a seeded grid with a frame buffer of any length up to
\* FrameLen + MaxExtra, holding old bytes.
RenderInit ==
    /\ \E alive \in StepPatterns : cells = PatternGrid(alive, 0)
    /\ \E len \in 0 .. FrameLen + MaxExtra, old \in {0, 77} :
          frame_buffer = [j \in 0 .. len - 1 |-> old]
    /\ generation = 0
    /\ pc = "render"
    /\ control_flow = "Poll"
    /\ render_outcome = "none"
    /\ sy = 0 /\ sx = 0 /\ r = NoRand
    /\ cells_original = EmptyCells
    /\ has_changes = FALSE
    /\ alive_neighbors = [y \in Rows |-> [x \in Cols |-> 0]]
    /\ x_wrapped_left = NoIndex /\ x_wrapped_right = NoIndex
    /\ y_wrapped_top = NoIndex /\ y_wrapped_bottom = NoIndex
    /\ stdout = << >>

RenderNext == Render

SpecRender == RenderInit /\ [][RenderNext]_vars

\* --------------------------------------------- the event loop on its own
\* The event loop entering a callback on a grid with one of the alive
\* patterns above whose dead cells all have the same brightness; the
\* callback is invoked again and again, and each of its steps is taken
\* once the one before it is over.
LoopInit ==
    /\ \E alive \in StepPatterns, b \in DeadBrightness :
          cells = PatternGrid(alive, b)
    /\ generation = 0
    /\ pc = "render"
    /\ control_flow = "Poll"
    /\ frame_buffer = [j \in 0 .. FrameLen - 1 |-> 0]
    /\ render_outcome = "none"
    /\ sy = 0 /\ sx = 0 /\ r = NoRand
    /\ cells_original = EmptyCells
    /\ has_changes = FALSE
    /\ alive_neighbors = [y \in Rows |-> [x \in Cols |-> 0]]
    /\ x_wrapped_left = NoIndex /\ x_wrapped_right = NoIndex
    /\ y_wrapped_top = NoIndex /\ y_wrapped_bottom = NoIndex
    /\ stdout = << >>

LoopNext ==
    \/ Render
    \/ PresentOk
    \/ PresentErr
    \/ InputExit
    \/ InputContinue
    \/ Tick

LoopFairness ==
    /\ WF_vars(Render)
    /\ WF_vars(PresentOk)
    /\ WF_vars(InputContinue)
    /\ WF_vars(Tick)

SpecLoop == LoopInit /\ [][LoopNext]_vars /\ LoopFairness

\* ------------------------------------------------------------ properties
\* At least one transition has been computed: cells_original, cells,
\* has_changes, alive_neighbors and the wrapped indices are those of the
\* last call of calculate_state.
Stepped == generation > 0

AliveCount(grid) ==
    Cardinality({c \in Rows \X Cols : grid[c[1]][c[2]][1] = 1})

\* C1: the +1 neighbour index of every index i is (i + 1) mod limit, so
\* that of limit - 1 is 0, for the columns (limit WIDTH) and the rows
\* (limit HEIGHT).
C1_OverflowWrapsToZero ==
    Stepped =>
        /\ \A x \in Cols : x_wrapped_right[x] = (x + 1) % WIDTH
        /\ \A y \in Rows : y_wrapped_bottom[y] = (y + 1) % HEIGHT

\* C2: the -1 neighbour index of index 0 is limit - 1 and that of every
\* i > 0 is i - 1; every wrapped index, of either direction, lies in
\* [0, limit).
C2_UnderflowWraps ==
    Stepped =>
        /\ x_wrapped_left[0] = WIDTH - 1
        /\ y_wrapped_top[0] = HEIGHT - 1
        /\ \A x \in Cols : x > 0 => x_wrapped_left[x] = x - 1
        /\ \A y \in Rows : y > 0 => y_wrapped_top[y] = y - 1
        /\ \A x \in Cols : x_wrapped_left[x] \in Cols
                            /\ x_wrapped_right[x] \in Cols
        /\ \A y \in Rows : y_wrapped_top[y] \in Rows
                            /\ y_wrapped_bottom[y] \in Rows

\* A step from a grid whose only alive cell is (W-1, H-1): cell (0, 0)
\* counts it through its (-1, -1) neighbour.
C2_Witness ==
    /\ Stepped
    /\ AliveCount(cells_original) = 1
    /\ cells_original[HEIGHT - 1][WIDTH - 1][1] = 1
    /\ alive_neighbors[0][0] = 1
    /\ x_wrapped_left[0] = WIDTH - 1 /\ y_wrapped_top[0] = HEIGHT - 1

\* C3: an alive cell with 0 or 1 alive neighbours dies, with 2 or 3 stays
\* alive, with 4..8 dies; a dead cell with exactly 3 becomes alive and stays
\* dead otherwise; for every count in 0..8 exactly one of the three
\* alive-branches is taken.
C3_RulePartition ==
    /\ \A n \in 0 .. 8 :
          /\ underpopulation(n) <=> n \in {0, 1}
          /\ (~underpopulation(n) /\ balanced(n)) <=> n \in {2, 3}
          /\ (~underpopulation(n) /\ ~balanced(n) /\ overpopulation(n))
                <=> n \in 4 .. 8
    /\ Stepped =>
          \A y \in Rows, x \in Cols :
             LET n   == alive_neighbors[y][x]
                 was == cells_original[y][x][1]
                 now == cells[y][x][1]
             IN  /\ n \in 0 .. 8
                 /\ was \in {0, 1}
                 /\ (was = 1 /\ n \in {0, 1}) => now = 0
                 /\ (was = 1 /\ n \in {2, 3}) => now = 1
                 /\ (was = 1 /\ n \in 4 .. 8) => now = 0
                 /\ (was = 0 /\ n = 3) => now = 1
                 /\ (was = 0 /\ n # 3) => now = 0

\* One step in which all five outcomes occur.
C3_Witness ==
    /\ Stepped
    /\ \E c \in Rows \X Cols : /\ cells_original[c[1]][c[2]][1] = 1
                                /\ alive_neighbors[c[1]][c[2]] < 2
                                /\ cells[c[1]][c[2]][1] = 0
    /\ \E c \in Rows \X Cols : /\ cells_original[c[1]][c[2]][1] = 1
                                /\ alive_neighbors[c[1]][c[2]] \in {2, 3}
                                /\ cells[c[1]][c[2]][1] = 1
    /\ \E c \in Rows \X Cols : /\ cells_original[c[1]][c[2]][1] = 1
                                /\ alive_neighbors[c[1]][c[2]] > 3
                                /\ cells[c[1]][c[2]][1] = 0
    /\ \E c \in Rows \X Cols : /\ cells_original[c[1]][c[2]][1] = 0
                                /\ alive_neighbors[c[1]][c[2]] = 3
                                /\ cells[c[1]][c[2]][1] = 1
    /\ \E c \in Rows \X Cols : /\ cells_original[c[1]][c[2]][1] = 0
                                /\ alive_neighbors[c[1]][c[2]] # 3
                                /\ cells[c[1]][c[2]][1] = 0


\* The synchronous update: every cell's next value computed from the
\* previous generation g alone.
SyncCell(g, y, x) == rule(g[y][x], g[y][x], count_neighbors(g, y, x, WIDTH, HEIGHT))
SyncStep(g) == [y \in Rows |-> [x \in Cols |-> SyncCell(g, y, x)[1]]]
SyncChanges(g) == \E y \in Rows, x \in Cols : SyncCell(g, y, x)[2]

\* Visiting orders: that of the source, its reverse, and column by column.
Reversed(order) == [k \in 1 .. Len(order) |-> order[Len(order) + 1 - k]]
ColumnMajor ==
    [k \in 1 .. WIDTH * HEIGHT |-> <<(k - 1) % HEIGHT, (k - 1) \div HEIGHT>>]
Orders == {row_major(WIDTH, HEIGHT), Reversed(row_major(WIDTH, HEIGHT)),
           ColumnMajor}

\* C4: the grid and has_changes left by the in-place loop are those of
\* the synchronous update of the previous generation, and the loop yields
\* the same grid whatever the order in which it visits the cells.
C4_SnapshotEvaluation ==
    Stepped =>
        /\ cells = SyncStep(cells_original)
        /\ has_changes = SyncChanges(cells_original)
        /\ \A order \in Orders :
              calculate_over(cells_original, order, WIDTH, HEIGHT).cells = cells

\* A step in which a cell visited early changed while a cell visited later,
\* having it as a neighbour, changed too.
C4_Witness ==
    /\ Stepped
    /\ cells_original[0][0][1] # cells[0][0][1]
    /\ cells_original[1][1][1] # cells[1][1][1]
    /\ cells_original[HEIGHT - 1][0][1] # cells[HEIGHT - 1][0][1]

\* C5: every alive cell has brightness 255 and every brightness is in
\* 0..255, in every reachable state.
C5_BrightnessInvariant ==
    \A y \in Rows, x \in Cols :
        /\ cells[y][x][2] \in 0 .. 255
        /\ cells[y][x][1] = 1 => cells[y][x][2] = 255

\* After two steps: a cell born in the last step, next to fading cells.
C5_Witness ==
    /\ generation >= 2
    /\ \E y \in Rows, x \in Cols :
          cells_original[y][x][1] = 0 /\ cells[y][x] = <<1, 255>>
    /\ \E y \in Rows, x \in Cols :
          cells[y][x][1] = 0 /\ cells[y][x][2] \in 1 .. 254

\* C6: a cell that is dead after a step has brightness
\* floor(0.95 * its brightness in the previous generation), which is at
\* most that brightness; a cell that is alive after a step has 255.
C6_DecayValue ==
    Stepped =>
        \A y \in Rows, x \in Cols :
            LET old == cells_original[y][x][2]
                new == cells[y][x][2]
            IN  /\ cells[y][x][1] = 0 => new = (old * 95) \div 100 /\ new <= old
                /\ cells[y][x][1] = 1 => new = 255

\* A step from a grid whose dead cells have brightness 80 (0.95 * 80 is
\* the integer 76) in which a cell dies, one stays dead and one lives.
C6_Witness ==
    /\ Stepped
    /\ \E y \in Rows, x \in Cols :
          cells_original[y][x] = <<0, 80>> /\ cells[y][x] = <<0, 76>>
    /\ \E y \in Rows, x \in Cols :
          cells_original[y][x] = <<1, 255>> /\ cells[y][x] = <<0, 242>>
    /\ \E y \in Rows, x \in Cols :
          cells_original[y][x][1] = 1 /\ cells[y][x] = <<1, 255>>

\* C7: after a step has_changes is false exactly when no alive flag
\* differs between the input and the output grid, and the stability
\* message is printed by that step exactly when has_changes is false, with
\* the number of transitions completed before it.
C7_StabilityDetection ==
    Stepped =>
        /\ has_changes = FALSE <=>
              \A y \in Rows, x \in Cols :
                  cells[y][x][1] = cells_original[y][x][1]
        /\ has_changes = FALSE <=>
              (Len(stdout) > 0 /\ stdout[Len(stdout)] = generation - 1)

\* The second or a later step is the first stable one.
C7_Witness ==
    /\ generation >= 2
    /\ ~has_changes
    /\ stdout = <<generation - 1>>
    /\ \A y \in Rows, x \in Cols : cells[y][x][1] = cells_original[y][x][1]
    /\ AliveCount(cells) > 0

\* The cell written by the last iteration of the loops of seed.
LastSeeded ==
    IF sx = 0 THEN cells[sy - 1][WIDTH - 1] ELSE cells[sy][sx - 1]
Seeding == pc = "seed" /\ r # NoRand

\* C8 as stated: a cell is seeded dead when the draw exceeds 0.5 and alive
\* otherwise.
C8_DeadWhenDrawExceeds ==
    Seeding =>
        LastSeeded = (IF r > SeedThreshold THEN <<0, 0>> ELSE <<1, 255>>)

\* C8, amended: a cell is seeded alive (1, 255) when the draw exceeds 0.5
\* and dead (0, 0) otherwise; while seed runs no cell holds any other pair.
C8_AliveWhenDrawExceeds ==
    /\ Seeding =>
          LastSeeded = (IF r > SeedThreshold THEN <<1, 255>> ELSE <<0, 0>>)
    /\ (pc = "seed" \/ generation = 0) =>
          \A y \in Rows, x \in Cols : cells[y][x] \in {<<1, 255>>, <<0, 0>>}

\* seed has just written the last cell from a draw of exactly 0.5, after a
\* larger draw made another cell alive.
C8_Witness ==
    /\ Seeding /\ sy = HEIGHT
    /\ r = SeedThreshold /\ LastSeeded = <<0, 0>>
    /\ AliveCount(cells) > 0

\* The frame buffer holds, in the four bytes of every pixel i, the
\* brightness of cell (x = i % WIDTH, y = i / WIDTH).
FrameShowsGrid ==
    /\ DOMAIN frame_buffer = 0 .. FrameLen - 1
    /\ \A i \in 0 .. WIDTH * HEIGHT - 1 : \A k \in 0 .. 3 :
          frame_buffer[4 * i + k] = cells[i \div WIDTH][i % WIDTH][2]

\* The 2 x 2 grid with brightness 10, 20, 30, 40 (row-major), held in the
\* top left corner of the array, rendered with width 2 and height 2 into
\* 16 bytes.
ExampleGrid ==
    [y \in Rows |-> [x \in Cols |->
        IF y < 2 /\ x < 2 THEN <<0, 10 * (2 * y + x + 1)>> ELSE <<0, 0>>]]
ExampleFrame ==
    render(ExampleGrid, 2, 2, [j \in 0 .. 15 |-> 0]).frame
ExampleExpected ==
    <<10, 10, 10, 10, 20, 20, 20, 20, 30, 30, 30, 30, 40, 40, 40, 40>>

\* C9: after render on the frame buffer of WIDTH * HEIGHT * 4 bytes all
\* four bytes of every pixel i hold the brightness of cell (i % WIDTH,
\* i / WIDTH); the 2 x 2 example yields the stated 16 bytes; render leaves
\* the grid as it was.
C9_RenderMapping ==
    /\ [](pc = "present" => FrameShowsGrid)
    /\ [](\A j \in 0 .. 15 : ExampleFrame[j] = ExampleExpected[j + 1])
    /\ [][pc = "render" => cells' = cells]_vars

\* A frame rendered after a step, showing bright, fading and dark pixels
\* of a grid that differs from its transpose.
C9_Witness ==
    /\ pc = "present" /\ Stepped /\ FrameShowsGrid
    /\ \E i, j, k \in 0 .. WIDTH * HEIGHT - 1 :
          /\ frame_buffer[4 * i] = 255
          /\ frame_buffer[4 * j] = 242
          /\ frame_buffer[4 * k] = 0
    /\ \E y \in Rows, x \in Cols :
          x < HEIGHT /\ y < WIDTH /\ cells[y][x][2] # cells[x][y][2]

\* C10: a render call on a frame buffer whose length is not
\* WIDTH * HEIGHT * 4 ends in an error.
C10_MismatchFailsFast ==
    (render_outcome # "none" /\ DOMAIN frame_buffer # 0 .. FrameLen - 1)
        => render_outcome = "panic"

\* C11: a callback in which present fails, or in which the polled input
\* reports escape or quit, sets the control flow to Exit and returns: the
\* step leaves the grid and the generation counter as they were, nothing
\* crashes, and once the control flow is Exit no present, poll or
\* transition follows.
C11_ExitHandling ==
    /\ [](pc # "panicked")
    /\ [](control_flow = "Exit" <=> pc = "exited")
    /\ [][pc' = "exited" /\ pc # "exited" =>
            /\ pc \in {"present", "input"}
            /\ control_flow' = "Exit"
            /\ cells' = cells /\ generation' = generation]_vars
    /\ [][control_flow = "Exit" =>
            /\ control_flow' = "Exit" /\ pc' = pc
            /\ cells' = cells /\ generation' = generation]_vars

\* The loop has exited after two transitions, without a third.
C11_Witness ==
    /\ pc = "exited" /\ control_flow = "Exit"
    /\ generation = 2
    /\ cells # cells_original

\* A stable generation has been reported by the last transition.
StableReported == Stepped /\ ~has_changes

\* C12: a stable generation never ends the loop: the exited state is
\* entered only from the present (failure) and the input poll (escape or
\* quit), the transition always hands over to the next callback, and after
\* a stable generation is reported the next transition is taken unless the
\* loop exits first.
C12_StabilityIsNotAHalt ==
    /\ [][pc' = "exited" /\ pc # "exited" => pc \in {"present", "input"}]_vars
    /\ [][pc = "tick" /\ pc' # "tick" => pc' = "render"]_vars
    /\ \A g \in 1 .. MaxGen - 1 :
          (StableReported /\ generation = g)
             ~> (pc = "exited" \/ generation = g + 1)

\* Two transitions were taken after the first stable generation was
\* reported, the last of them stable again.
C12_Witness ==
    /\ Len(stdout) >= 2
    /\ generation >= stdout[1] + 3
    /\ StableReported
    /\ pc = "render"

\* C13: the generation counter is 0 until the first transition, never
\* negative and never decreasing; the step that completes a transition
\* adds exactly 1 to it and replaces the grid by the synchronous update of
\* the grid alone, and every other step leaves the counter (and, once
\* seeding is over, the grid) as it was.
C13_GenerationCounter ==
    /\ [](generation \in 0 .. MaxGen)
    /\ [](pc = "seed" => generation = 0)
    /\ [][generation' >= generation]_vars
    /\ [][pc = "tick" =>
            /\ generation' = generation + 1
            /\ cells' = SyncStep(cells)]_vars
    /\ [][pc # "tick" =>
            /\ generation' = generation
            /\ pc # "seed" => cells' = cells]_vars

\* The callback about to render the grid left by MaxGen transitions, the
\* last of which changed it.
C13_Witness ==
    /\ generation = MaxGen /\ pc = "render"
    /\ has_changes /\ cells # cells_original
    /\ AliveCount(cells_original) > 0

\* The number of successive decays that take b to 0 (256 or more: never).
DecaySteps[b \in 0 .. 255] ==
    IF b = 0 THEN 0
    ELSE IF decay_u8[b] >= b THEN 256
    ELSE 1 + DecaySteps[decay_u8[b]]

DecayConverges ==
    \A b \in 0 .. 255 :
        /\ decay_u8[b] \in 0 .. b
        /\ b > 0 => decay_u8[b] < b
        /\ DecaySteps[b] <= 255

\* C14: a cell that is dead before and after a step has a strictly smaller
\* brightness after it when its brightness was above 0, and 0 when it was
\* 0; the decay of every value in 0..255 is below it (0 for 0), so at
\* most 255 successive decays take any value to 0.
C14_BrightnessConvergence ==
    /\ [](DecayConverges)
    /\ [][pc = "tick" =>
            \A y \in Rows, x \in Cols :
                (cells[y][x][1] = 0 /\ cells'[y][x][1] = 0) =>
                    /\ cells[y][x][2] > 0 => cells'[y][x][2] < cells[y][x][2]
                    /\ cells[y][x][2] = 0 => cells'[y][x][2] = 0]_vars

\* After two steps: a cell that died in the first step fades from 242 to
\* 229 while a cell whose brightness reached 0 stays at 0 and a cell whose
\* brightness was 1 reaches 0.
C14_Witness ==
    /\ generation >= 2
    /\ \E y \in Rows, x \in Cols :
          cells_original[y][x] = <<0, 242>> /\ cells[y][x] = <<0, 229>>
    /\ \E y \in Rows, x \in Cols :
          cells_original[y][x] = <<0, 0>> /\ cells[y][x] = <<0, 0>>

\* The scenario grid: only the centre cell (1, 1) alive, with brightness
\* 255, every other cell dead with brightness 0; and one step of it as a
\* 3 x 3 grid.
ScenarioGrid == PatternGrid({<<1, 1>>}, 0)
ScenarioStep == calculate_state(ScenarioGrid, 3, 3)
ScenarioExpected(y, x) == IF y = 1 /\ x = 1 THEN <<0, 242>> ELSE <<0, 0>>

\* C15: one step of the 3 x 3 grid whose only alive cell is the centre:
\* cell (0, 0) counts exactly 1 alive neighbour, every cell is dead after
\* the step, the centre has brightness 242 = floor(255 * 0.95), every other
\* cell has brightness 0 and has_changes is true; the same holds for the
\* step the program takes from that grid.
C15_CentreScenario ==
    /\ ScenarioStep.alive_neighbors[0][0] = 1
    /\ \A y \in 0 .. 2, x \in 0 .. 2 :
          ScenarioStep.cells[y][x] = ScenarioExpected(y, x)
    /\ ScenarioStep.has_changes
    /\ (Stepped /\ cells_original = ScenarioGrid) =>
          /\ alive_neighbors[0][0] = 1
          /\ \A y \in Rows, x \in Cols : cells[y][x] = ScenarioExpected(y, x)
          /\ has_changes

\* The step from the scenario grid has been taken and the centre has died.
C15_Witness ==
    /\ Stepped /\ cells_original = ScenarioGrid
    /\ cells_original[1][1] = <<1, 255>> /\ cells[1][1] = <<0, 242>>
    /\ AliveCount(cells) = 0 /\ has_changes

\* The successions of callback phases: render, present, poll input,
\* compute the next grid, and render again in the next callback; the
\* callback returns early from present and from the poll.
PhaseOrder ==
    { <<"render", "present">>, <<"present", "input">>, <<"input", "tick">>,
      <<"tick", "render">>, <<"present", "exited">>, <<"input", "exited">> }

\* C17: the phases of a callback follow each other as render, present,
\* poll input, transition; from the end of render until the transition
\* the frame buffer shows the current grid; the grid changes in the
\* transition phase only, which is entered only from the poll that
\* followed a successful present of that grid.
C17_TickOrdering ==
    /\ [](pc \in {"present", "input", "tick"} => FrameShowsGrid)
    /\ [][pc' # pc => <<pc, pc'>> \in PhaseOrder]_vars
    /\ [][pc' = pc => UNCHANGED vars]_vars
    /\ [][cells' # cells => pc = "tick"]_vars
    /\ [][frame_buffer' # frame_buffer => pc = "render"]_vars

\* The second or a later callback is about to compute a transition: the
\* frame shows the grid left by the previous one, a fading cell included.
C17_Witness ==
    /\ pc = "tick" /\ Stepped
    /\ FrameShowsGrid
    /\ cells # cells_original
    /\ \E i \in 0 .. WIDTH * HEIGHT - 1 : frame_buffer[4 * i] = 242

\* The numbers printed are consecutive and end with the generation of the
\* last transition.
MessagesConsecutive ==
    /\ \A i \in 1 .. Len(stdout) - 1 : stdout[i + 1] = stdout[i] + 1
    /\ Len(stdout) > 0 => stdout[Len(stdout)] = generation - 1

\* C18: once a step has reported no changes, every later step reports no
\* changes too, leaves every alive flag as it was, keeps the alive cells
\* at 255 and only lowers (or keeps at 0) the brightness of the dead
\* cells, and prints the stability message again, so the message appears
\* for every generation from the first stable one on.
C18_StabilityAbsorbing ==
    /\ [][StableReported => ~has_changes']_vars
    /\ [][(StableReported /\ pc = "tick") =>
            /\ \A y \in Rows, x \in Cols :
                  /\ cells'[y][x][1] = cells[y][x][1]
                  /\ cells[y][x][1] = 1 => cells'[y][x][2] = 255
                  /\ cells[y][x][1] = 0 =>
                        cells'[y][x][2] = (cells[y][x][2] * 95) \div 100
            /\ stdout' = Append(stdout, generation)]_vars
    /\ [](StableReported => MessagesConsecutive)

\* Three stable generations in a row on a grid with alive cells and a
\* dead cell that is still fading.
C18_Witness ==
    /\ StableReported
    /\ Len(stdout) >= 3
    /\ AliveCount(cells) > 0
    /\ \E y \in Rows, x \in Cols :
          cells[y][x][1] = 0 /\ cells[y][x][2] > 0

\* C19: in every reachable state every alive flag is 0 or 1, a cell has
\* brightness 255 exactly when it is alive, and every dead cell has
\* brightness at most 242.
C19_AliveBrightness ==
    \A y \in Rows, x \in Cols :
        /\ cells[y][x][1] \in {0, 1}
        /\ cells[y][x][2] = 255 <=> cells[y][x][1] = 1
        /\ cells[y][x][1] = 0 => cells[y][x][2] <= 242

\* After the first step: a cell that just died (242, the largest
\* brightness of a dead cell), an alive cell and a cell still dark.
C19_Witness ==
    /\ generation = 1
    /\ \E y \in Rows, x \in Cols :
          cells_original[y][x] = <<1, 255>> /\ cells[y][x] = <<0, 242>>
    /\ \E y \in Rows, x \in Cols : cells[y][x] = <<1, 255>>
    /\ \E y \in Rows, x \in Cols : cells[y][x] = <<0, 0>>
====
